---- MODULE Spec2Model ----
(***************************************************************************)
(* Ciudad Conectada PWA: the page's offline action queue (app.js), the     *)
(* API gateway client (apiCall) and the service worker's request policy    *)
(* (sw.js, the cc-cache-v5 revision).                                      *)
(***************************************************************************)
EXTENDS Integers, Sequences, FiniteSets, TLC

VARIABLES
    localStorage,   \* key -> <<>> (absent) or <<value>>: authToken, currentUser, syncQueue
    currentUser,    \* App.currentUser
    onLine,         \* navigator.onLine
    now,            \* the last value Date.now() returned
    locationId,     \* the ?id= parameter of the page's URL (Null when absent)
    statusText,     \* innerText of #report-details-status
    message,        \* textContent of #app-message (the last showMessage), in ASCII
    drains,         \* the processSyncQueue invocations, each suspended on its fetch or idle;
                    \* sent and failed are history: the actions fetch was called for, and
                    \* for each settled fetch whether the replay failed
    call,           \* the handleStatusChange invocation suspended on apiCall, or idle
    syncTag,        \* a 'sync-report-actions' registration is pending in the browser
    swState,        \* the service worker: "parsed", "installed", "activating" (the
                    \* 'activate' handler ran, its waitUntil promise is pending),
                    \* "activated" or "redundant"
    caches,         \* the worker's CacheStorage: the caches in creation order, each
                    \* [name, entries], entries a function from a URL to a response
    swFetch,        \* the worker's fetch handler suspended on the network, or idle
    swPut,          \* the cache.put calls the worker did not await and that have not
                    \* settled, each [request, response], in the order they were made
    inbox,          \* the messages the worker posted to this page that its 'message'
                    \* listener has not handled yet
    claim,          \* self.clients.claim(): "none" (not called), "pending" or "done"
                    \* (the open pages are controlled by this worker)
    fetched,        \* history: the [request, response] of the API fetches that got an
                    \* ok response, the most recent one of each request only, oldest first
    last            \* history: the handler that ran last, with what it saw

pageVars == <<localStorage, currentUser, onLine, now, locationId, statusText, message,
              drains, call, syncTag>>
swVars == <<swState, caches, swFetch, swPut, inbox, claim, fetched>>
vars == <<pageVars, swVars, last>>

---------------------------------------------------------------------------
(* Bounds of the model *)

MaxQueue == 2
MaxClock == 2
MaxInbox == 1
MaxOverlapQueue == 1
\* The cache.put calls of the worker that can be pending together
MaxPendingPuts == 1

---------------------------------------------------------------------------
(* Values *)

Null == "null"
Token == "jwt"
User == "ana"
ReportIds == {"42"}
apiBaseUrl == "https://ciudad-conectada.onrender.com/api"

\* response.ok: a status in the range 200-299
ResponseOk(status) == status >= 200 /\ status <= 299

\* What `await fetch(url, config)` can produce: a response, or a rejection
\* (no response reachable).
Statuses == {200, 401, 500}
FetchOutcomes ==
    {[kind |-> "response", status |-> s] : s \in Statuses} \cup {[kind |-> "error"]}

OutcomeOk(o) == o.kind = "response" /\ ResponseOk(o.status)

\* A replay failed: a response that is not ok, or no response at all.
ReplayFailed(o) == o.kind = "error" \/ o.status < 200 \/ o.status > 299

Is401(o) == o.kind = "response" /\ o.status = 401

\* JSON.stringify / JSON.parse: the text is a value of its own kind, never the
\* object it encodes.
JSON_stringify(v) == [json |-> v]
JSON_parse(text) == text.json

\* Object spread { ...base, ...over }: the keys of both, over winning.
Spread(base, over) == over @@ base

Range(s) == {s[k] : k \in 1..Len(s)}

---------------------------------------------------------------------------
(* localStorage *)

setItem(ls, key, value) == [ls EXCEPT ![key] = <<value>>]
removeItem(ls, key) == [ls EXCEPT ![key] = <<>>]

\* localStorage.getItem("authToken"): Null when the key is absent
getToken(ls) == IF ls["authToken"] = <<>> THEN Null ELSE ls["authToken"][1]

\* JSON.parse(localStorage.getItem("syncQueue") || "[]")
readQueue(ls) ==
    IF ls["syncQueue"] = <<>> THEN JSON_parse(JSON_stringify(<<>>))
    ELSE JSON_parse(ls["syncQueue"][1])

\* A token is truthy when it is neither null nor the empty string.
Truthy(token) == token # Null /\ token # ""

---------------------------------------------------------------------------
(* logout *)

\* A logout that clears the whole store (localStorage.clear()).
logout_Clear(ls) == [k \in DOMAIN ls |-> <<>>]

\* removeItem("authToken"); removeItem("currentUser")
logout(ls) == removeItem(removeItem(ls, "authToken"), "currentUser")

---------------------------------------------------------------------------
(* enqueueSyncAction *)

\* An enqueue that puts the new action in front of the queue.
enqueueSyncAction_Unshift(ls, t, action) ==
    setItem(ls, "syncQueue",
            JSON_stringify(<<Spread([id |-> t], action)>> \o readQueue(ls)))

\* queue.push({ id: Date.now(), ...action }); setItem("syncQueue", stringify(queue))
enqueueSyncAction(ls, t, action) ==
    LET queue == readQueue(ls)
        pushed == Append(queue, Spread([id |-> t], action))
    IN  setItem(ls, "syncQueue", JSON_stringify(pushed))

\* Date.now() at a later call: the same millisecond or a later one.
Tick(t) == IF t < MaxClock THEN t + 1 ELSE t

\* registerBackgroundSync: best effort, the registration may or may not be made
\* ("serviceWorker" in navigator && "SyncManager" in window, and register may fail).
registerBackgroundSync(supported) == syncTag \/ supported

---------------------------------------------------------------------------
(* processSyncQueue *)

IdleDrain ==
    [pc |-> "idle", queue |-> <<>>, i |-> 0, failedActions |-> <<>>,
     request |-> <<>>, sent |-> <<>>, failed |-> <<>>]

\* A replay that sends every action as a POST.
ReplayRequest_AlwaysPost(action, token) ==
    [url |-> apiBaseUrl \o action.url,
     method |-> "POST",
     headers |-> ("Content-Type" :> "application/json"),
     body |-> IF "body" \in DOMAIN action THEN <<JSON_stringify(action.body)>> ELSE <<>>]

\* The request the loop body builds for one action (lines 220-227).
ReplayRequest(action, token) ==
    [url |-> apiBaseUrl \o action.url,
     method |-> IF "method" \in DOMAIN action THEN action.method ELSE "POST",
     headers |-> IF Truthy(token)
                 THEN ("Content-Type" :> "application/json")
                      @@ ("Authorization" :> ("Bearer " \o token))
                 ELSE ("Content-Type" :> "application/json"),
     body |-> IF "body" \in DOMAIN action THEN <<JSON_stringify(action.body)>> ELSE <<>>]

\* A loop that takes a failed action again until it succeeds.
NextIndex_RetryFailed(i, outcome) == IF OutcomeOk(outcome) THEN i + 1 ELSE i

\* for (const action of queue): the index of the action taken after the one at
\* index i, whatever its outcome was.
NextIndex(i, outcome) == i + 1

\* A catch that keeps only the actions whose fetch was rejected: a not-ok
\* response does not throw.
Classify_TransportOnly(failedActions, action, outcome) ==
    IF outcome.kind = "error" THEN Append(failedActions, action) ELSE failedActions

\* catch (error) { failedActions.push(action) }: a not-ok response throws too.
Classify(failedActions, action, outcome) ==
    IF OutcomeOk(outcome) THEN failedActions ELSE Append(failedActions, action)

\* A final write that reads the queue again and takes out of it only the
\* actions this run replayed with success.
Residual_Reread(run) ==
    SelectSeq(readQueue(localStorage),
              LAMBDA a : a \in Range(run.failedActions) \/ a \notin Range(run.queue))

\* A final write that puts the snapshot back.
Residual_Snapshot(run) == run.queue

\* What the final write persists (line 241).
Residual(run) == run.failedActions

\* A loop that reads the token once, before the first action, and gives every
\* later request the headers of the first.
LoopFrom_TokenReadOnce(run, i, ls, msg) ==
    IF i <= Len(run.queue)
    THEN [drain |-> [run EXCEPT !.pc = "await", !.i = i,
                                !.request =
                                    <<[ReplayRequest(run.queue[i], getToken(ls)) EXCEPT
                                         !.headers = IF run.request = <<>> THEN @
                                                     ELSE run.request[1].headers]>>,
                                !.sent = Append(run.sent, run.queue[i])],
          ls |-> ls, msg |-> msg, wrote |-> FALSE]
    ELSE [drain |-> [run EXCEPT !.pc = "idle", !.i = i, !.request = <<>>],
          ls |-> setItem(ls, "syncQueue", JSON_stringify(Residual(run))),
          msg |-> IF Len(run.failedActions) = 0
                  THEN "Sincronizacion completada."
                  ELSE "Algunas acciones no se pudieron sincronizar. Se intentara mas tarde.",
          wrote |-> TRUE]

\* The loop from index i on, up to its next await: either the fetch of action i
\* is issued, or the loop is over and the queue is rewritten.
\* Gives the drain's record, the store and the message.
LoopFrom(run, i, ls, msg) ==
    IF i <= Len(run.queue)
    THEN [drain |-> [run EXCEPT !.pc = "await", !.i = i,
                                !.request = <<ReplayRequest(run.queue[i], getToken(ls))>>,
                                !.sent = Append(run.sent, run.queue[i])],
          ls |-> ls, msg |-> msg, wrote |-> FALSE]
    ELSE [drain |-> [run EXCEPT !.pc = "idle", !.i = i, !.request = <<>>],
          ls |-> setItem(ls, "syncQueue", JSON_stringify(Residual(run))),
          msg |-> IF Len(run.failedActions) = 0
                  THEN "Sincronizacion completada."
                  ELSE "Algunas acciones no se pudieron sincronizar. Se intentara mas tarde.",
          wrote |-> TRUE]

\* A processSyncQueue without the early return on an empty queue.
processSyncQueue_NoEarlyReturn(ls, msg) ==
    LoopFrom([IdleDrain EXCEPT !.queue = readQueue(ls)], 1, ls,
             "Sincronizando acciones pendientes...")

\* processSyncQueue() up to its first await (lines 211-229).
\* An empty queue returns at once.
processSyncQueue(ls, msg) ==
    LET queue == readQueue(ls) IN
    IF Len(queue) = 0
    THEN [drain |-> IdleDrain, ls |-> ls, msg |-> msg, wrote |-> FALSE]
    ELSE LoopFrom([IdleDrain EXCEPT !.queue = queue], 1, ls,
                  "Sincronizando acciones pendientes...")

Idle(d) == drains[d].pc = "idle"
\* One processSyncQueue invocation per trigger can be in progress: the one the
\* connectivity observer started and the one the SYNC_NOW listener started.
DrainIds == {"online", "message"}

\* A call of processSyncQueue made by a handler, taken when the slot of its
\* trigger is free (or when the queue is empty and the call returns at once).
CallProcessSyncQueue(ls, msg, trigger, free) ==
    LET r == processSyncQueue(ls, msg) IN
    /\ message' = r.msg
    /\ IF r.drain.pc = "idle"
       THEN drains' = drains
       ELSE /\ free
            /\ drains' = [drains EXCEPT ![trigger] = r.drain]

DrainStartRecord(ls, trigger) ==
    [op |-> IF Len(readQueue(ls)) = 0 THEN "drainEmpty" ELSE "drainStart", trigger |-> trigger]

\* The call made only when no other drain is in progress: drains do not overlap.
StartDrain(ls, msg, trigger) ==
    /\ CallProcessSyncQueue(ls, msg, trigger, \A d \in DrainIds : Idle(d))
    /\ last' = DrainStartRecord(ls, trigger)

\* The call as the code makes it, with no regard for a drain in progress.
StartDrainConcurrent(ls, msg, trigger) ==
    /\ CallProcessSyncQueue(ls, msg, trigger, Idle(trigger))
    /\ last' = DrainStartRecord(ls, trigger)

\* The fetch of drain d settles; the loop runs on to its next await or to the end.
DrainResponse(d) ==
    /\ drains[d].pc = "await"
    /\ \E o \in FetchOutcomes :
         LET run == drains[d]
             action == run.queue[run.i]
             run2 == [run EXCEPT !.failedActions = Classify(run.failedActions, action, o),
                                 !.failed = Append(run.failed, ReplayFailed(o))]
             r == LoopFrom(run2, NextIndex(run.i, o), localStorage, message)
         IN  /\ localStorage' = r.ls
             /\ message' = r.msg
             /\ drains' = [drains EXCEPT ![d] = r.drain]
             /\ last' = IF r.wrote
                        THEN [op |-> "drainWrite", outcome |-> o, queue |-> run2.queue,
                              sent |-> run2.sent, failed |-> run2.failed,
                              before |-> readQueue(localStorage)]
                        ELSE [op |-> "drainResponse", outcome |-> o]
    /\ UNCHANGED <<swVars, currentUser, onLine, now, locationId, statusText, call, syncTag>>

---------------------------------------------------------------------------
(* apiCall *)

EmptyObject == <<>>

\* typeof body === "string": a text, as JSON_stringify makes it
IsString(v) == DOMAIN v = {"json"}

\* The config apiCall hands to fetch (lines 141-155): the default headers, the
\* caller's headers over them, then the whole of options over the config.
ApiConfig(token, options) ==
    LET headers ==
            Spread(Spread(("Content-Type" :> "application/json"),
                          IF Truthy(token)
                          THEN ("Authorization" :> ("Bearer " \o token))
                          ELSE EmptyObject),
                   IF "headers" \in DOMAIN options THEN options.headers ELSE EmptyObject)
        config == Spread([method |-> "GET", headers |-> headers], options)
    IN  IF "body" \in DOMAIN config /\ ~IsString(config.body)
        THEN [config EXCEPT !.body = JSON_stringify(@)]
        ELSE config

ApiRequest(endpoint, token, options) ==
    [url |-> apiBaseUrl \o endpoint, config |-> ApiConfig(token, options)]

\* await response.text(): the body of the response as text ("" where the model
\* gives the response no body)
ResponseText(outcome) == IF "text" \in DOMAIN outcome THEN outcome.text ELSE ""

\* The error apiCall is rejected with: for a response that is not ok,
\* new Error(`Error en la API: ${response.status} ${errorText}`); for a fetch
\* that was rejected, the error fetch gave.
ApiError(outcome) ==
    IF outcome.kind = "response"
    THEN [name |-> "Error", prefix |-> "Error en la API: ", status |-> <<outcome.status>>,
          text |-> ResponseText(outcome)]
    ELSE [name |-> "TypeError", prefix |-> "", status |-> <<>>, text |-> ""]

\* An apiCall that ends the session on every response that is not ok.
apiCallSettle_LogoutOnAnyFailure(ls, outcome) ==
    IF OutcomeOk(outcome)
    THEN [ls |-> ls, loggedOut |-> FALSE, fulfilled |-> TRUE, msg |-> <<>>,
          navigate |-> <<>>, error |-> <<>>]
    ELSE [ls |-> IF outcome.kind = "response" THEN logout(ls) ELSE ls,
          loggedOut |-> outcome.kind = "response",
          fulfilled |-> FALSE,
          msg |-> <<"Error de conexion. Revisa la consola para mas detalles.">>,
          navigate |-> IF outcome.kind = "response" THEN <<"Login.html">> ELSE <<>>,
          error |-> <<ApiError(outcome)>>]

\* apiCall after its fetch settled (lines 157-175): the store, whether the
\* promise is fulfilled or rejected and with what error, and the page logout
\* navigates to. A 401 logs out before the call fails.
apiCallSettle(ls, outcome) ==
    IF OutcomeOk(outcome)
    THEN [ls |-> ls, loggedOut |-> FALSE, fulfilled |-> TRUE, msg |-> <<>>,
          navigate |-> <<>>, error |-> <<>>]
    ELSE [ls |-> IF outcome.kind = "response" /\ outcome.status = 401 THEN logout(ls) ELSE ls,
          loggedOut |-> outcome.kind = "response" /\ outcome.status = 401,
          fulfilled |-> FALSE,
          msg |-> <<"Error de conexion. Revisa la consola para mas detalles.">>,
          navigate |-> IF outcome.kind = "response" /\ outcome.status = 401
                       THEN <<"Login.html">> ELSE <<>>,
          error |-> <<ApiError(outcome)>>]

---------------------------------------------------------------------------
(* handleStatusChange *)

DomStatuses == {"Enviado", "En Progreso", "Resuelto"}

\* What #report-details-status can show when the button is clicked: the three
\* statuses of the progression, or any other text the report came with.
DisplayedStatuses == DomStatuses \cup {"Pendiente"}

\* A progression that leaves a status it does not know as it is.
NextStatus_KeepUnknown(currentStatus) ==
    IF currentStatus = "Enviado" THEN "En Progreso"
    ELSE IF currentStatus = "En Progreso" THEN "Resuelto" ELSE currentStatus

NextStatus(currentStatus) ==
    IF currentStatus = "Enviado" THEN "En Progreso"
    ELSE IF currentStatus = "En Progreso" THEN "Resuelto" ELSE "Resuelto"

EstadoEndpoint(reportId) == "/Reports/" \o reportId \o "/estado"

\* The action the offline branch enqueues (lines 489-493).
StatusAction(reportId, nextStatus) ==
    [url |-> EstadoEndpoint(reportId), method |-> "PUT", body |-> [estado |-> nextStatus]]

\* navigator.onLine is false at the click: the offline branch is taken.
OfflineBranch(online) == ~online

IdleCall == [pc |-> "idle", nextStatus |-> "", request |-> <<>>]

\* Click on #change-status-button without ?id=
StatusChangeNoId ==
    /\ locationId = Null
    /\ message' = "ID de reporte no encontrado."
    /\ last' = [op |-> "statusNoId"]
    /\ UNCHANGED <<swVars, localStorage, currentUser, onLine, now, locationId, statusText,
                   drains, call, syncTag>>

\* Click while navigator.onLine is false: the change is enqueued. The queue
\* grows up to maxLen actions.
StatusChangeOfflineUpTo(maxLen) ==
    /\ locationId # Null
    /\ OfflineBranch(onLine)
    /\ Len(readQueue(localStorage)) < maxLen
    /\ \E t \in {now, Tick(now)}, supported \in BOOLEAN :
         LET nextStatus == NextStatus(statusText)
             action == StatusAction(locationId, nextStatus)
         IN  /\ now' = t
             /\ localStorage' = enqueueSyncAction(localStorage, t, action)
             /\ syncTag' = registerBackgroundSync(supported)
             /\ statusText' = nextStatus
             /\ message' = "Estado guardado offline Se sincronizara cuando vuelva el internet."
             /\ last' = [op |-> "statusOffline", action |-> action]
    /\ UNCHANGED <<swVars, currentUser, onLine, locationId, drains, call>>

StatusChangeOffline == StatusChangeOfflineUpTo(MaxQueue)

\* The same click where drains overlap
StatusChangeOfflineConcurrent == StatusChangeOfflineUpTo(MaxOverlapQueue)

\* Click while navigator.onLine is true: the PUT is issued through apiCall.
StatusChangeOnline ==
    /\ locationId # Null
    /\ ~OfflineBranch(onLine)
    /\ call.pc = "idle"
    /\ LET nextStatus == NextStatus(statusText) IN
         /\ call' = [pc |-> "await", nextStatus |-> nextStatus,
                     request |-> <<ApiRequest(EstadoEndpoint(locationId), getToken(localStorage),
                                              [method |-> "PUT", body |-> [estado |-> nextStatus]])>>]
         /\ last' = [op |-> "statusOnline"]
    /\ UNCHANGED <<swVars, localStorage, currentUser, onLine, now, locationId, statusText, message,
                   drains, syncTag>>

\* A catch that falls back to the offline queue.
statusChangeCatch_Enqueue(ls, t, action) == enqueueSyncAction(ls, t, action)

\* The catch of the online branch (lines 512-515) shows a message; the store
\* stays as apiCall left it.
statusChangeCatch(ls, t, action) == ls

\* The apiCall of handleStatusChange settles (lines 502-515).
StatusChangeSettle ==
    /\ call.pc = "await"
    /\ \E o \in FetchOutcomes :
         LET r == apiCallSettle(localStorage, o) IN
         /\ localStorage' = IF r.fulfilled THEN r.ls
                            ELSE statusChangeCatch(r.ls, now,
                                                   StatusAction(locationId, call.nextStatus))
         /\ currentUser' = IF r.loggedOut THEN Null ELSE currentUser
         /\ message' = IF r.fulfilled THEN "Estado actualizado" ELSE "Error al cambiar estado"
         /\ statusText' = IF r.fulfilled THEN call.nextStatus ELSE statusText
         /\ last' = [op |-> "statusSettle", outcome |-> o]
    /\ call' = IdleCall
    /\ UNCHANGED <<swVars, onLine, now, locationId, drains, syncTag>>

---------------------------------------------------------------------------
(* Events of the page *)

\* Click on [data-logout]
LogoutClick ==
    /\ getToken(localStorage) # Null \/ currentUser # Null
    /\ localStorage' = logout(localStorage)
    /\ currentUser' = Null
    /\ last' = [op |-> "logout"]
    /\ UNCHANGED <<swVars, onLine, now, locationId, statusText, message, drains, call, syncTag>>

\* An observer that starts a drain at every connectivity event.
ObserverDrains_Always(online) == TRUE

\* updateOnlineStatus (lines 674-688): if (navigator.onLine) it starts a drain,
\* else it touches the banner only.
ObserverDrains(online) == online

\* window 'online'
OnlineEvent ==
    /\ ~onLine
    /\ onLine' = TRUE
    /\ IF ObserverDrains(TRUE)
       THEN StartDrain(localStorage, message, "online")
       ELSE /\ last' = [op |-> "online"]
            /\ UNCHANGED <<message, drains>>
    /\ UNCHANGED <<swVars, localStorage, currentUser, now, locationId, statusText, call, syncTag>>

\* window 'online', whatever else is in progress
OnlineEventConcurrent ==
    /\ ~onLine
    /\ onLine' = TRUE
    /\ IF ObserverDrains(TRUE)
       THEN StartDrainConcurrent(localStorage, message, "online")
       ELSE /\ last' = [op |-> "online"]
            /\ UNCHANGED <<message, drains>>
    /\ UNCHANGED <<swVars, localStorage, currentUser, now, locationId, statusText, call, syncTag>>

\* window 'offline'
OfflineEvent ==
    /\ onLine
    /\ onLine' = FALSE
    /\ IF ObserverDrains(FALSE)
       THEN StartDrainConcurrent(localStorage, message, "online")
       ELSE /\ last' = [op |-> "offline"]
            /\ UNCHANGED <<message, drains>>
    /\ UNCHANGED <<swVars, localStorage, currentUser, now, locationId, statusText, call, syncTag>>

\* The browser fires the registered sync, the worker posts SYNC_NOW to the page,
\* and the page's 'message' listener (lines 28-35) calls processSyncQueue.
OnMessage ==
    /\ syncTag
    /\ syncTag' = FALSE
    /\ StartDrain(localStorage, message, "message")
    /\ UNCHANGED <<swVars, localStorage, currentUser, onLine, now, locationId, statusText, call>>

\* App.currentUser as restoreCurrentUser reads it
restoreCurrentUser(ls) == IF ls["currentUser"] = <<>> THEN Null ELSE JSON_parse(ls["currentUser"][1])

\* The page is loaded anew (reload, or the navigation logout asks for): what was
\* suspended or posted to it is gone, App.init runs, and its updateOnlineStatus() starts a drain
\* when online. The report is outside the model: the page shows the status it
\* showed before.
PageLoad ==
    /\ last.op # "pageLoad"
    /\ currentUser' = restoreCurrentUser(localStorage)
    /\ call' = IdleCall
    /\ LET r == processSyncQueue(localStorage, "") IN
         /\ message' = IF ObserverDrains(onLine) THEN r.msg ELSE ""
         /\ drains' = [d \in DrainIds |->
                          IF d = "online" /\ ObserverDrains(onLine) THEN r.drain ELSE IdleDrain]
    /\ inbox' = <<>>
    /\ last' = [op |-> "pageLoad"]
    /\ UNCHANGED <<swState, caches, swFetch, swPut, claim, fetched, localStorage, onLine, now, locationId,
                   statusText, syncTag>>

---------------------------------------------------------------------------
(* The service worker, while a specification follows the page alone. *)

IdleSwFetch == [pc |-> "idle", branch |-> "", request |-> <<>>]

SwAtRest ==
    /\ swState = "parsed"
    /\ caches = <<>>
    /\ swFetch = IdleSwFetch
    /\ swPut = <<>>
    /\ inbox = <<>>
    /\ claim = "none"
    /\ fetched = <<>>

---------------------------------------------------------------------------
(* The sync queue manager: the offline enqueue, the drain triggers and the    *)
(* drains, on a report page.                                                  *)

Init ==
    /\ \E session \in BOOLEAN :
         /\ localStorage = [k \in {"authToken", "currentUser", "syncQueue"} |->
                              IF k = "authToken" /\ session THEN <<Token>>
                              ELSE IF k = "currentUser" /\ session THEN <<JSON_stringify(User)>>
                              ELSE <<>>]
         /\ currentUser = IF session THEN User ELSE Null
    /\ onLine \in BOOLEAN
    /\ now = 1
    /\ locationId \in ReportIds
    /\ statusText \in DomStatuses
    /\ message = ""
    /\ drains = [d \in DrainIds |-> IdleDrain]
    /\ call = IdleCall
    /\ syncTag = FALSE
    /\ SwAtRest
    /\ last = [op |-> "init"]

Next ==
    \/ StatusChangeOffline
    \/ LogoutClick
    \/ OnlineEvent
    \/ OfflineEvent
    \/ OnMessage
    \/ PageLoad
    \/ \E d \in DrainIds : DrainResponse(d)

Spec == Init /\ [][Next]_vars

---------------------------------------------------------------------------
(* handleStatusChange and the apiCall it makes, under a connectivity that     *)
(* does not change.                                                           *)

InitStatusChange ==
    /\ \E session \in BOOLEAN :
         /\ localStorage = [k \in {"authToken", "currentUser", "syncQueue"} |->
                              IF k = "authToken" /\ session THEN <<Token>>
                              ELSE IF k = "currentUser" /\ session THEN <<JSON_stringify(User)>>
                              ELSE <<>>]
         /\ currentUser = IF session THEN User ELSE Null
    /\ onLine \in BOOLEAN
    /\ now = 1
    /\ locationId \in ReportIds \cup {Null}
    /\ statusText \in DisplayedStatuses
    /\ message = ""
    /\ drains = [d \in DrainIds |-> IdleDrain]
    /\ call = IdleCall
    /\ syncTag = FALSE
    /\ SwAtRest
    /\ last = [op |-> "init"]

NextStatusChange ==
    \/ StatusChangeNoId
    \/ StatusChangeOffline
    \/ StatusChangeOnline
    \/ StatusChangeSettle
    \/ LogoutClick

SpecStatusChange == InitStatusChange /\ [][NextStatusChange]_vars

---------------------------------------------------------------------------
(* apiCall as any caller may use it: the options are the caller's. *)

Optional(key, values) == {EmptyObject} \cup {(key :> v) : v \in values}

CallerHeaders ==
    {EmptyObject,
     ("X-Trace" :> "1"),
     ("Content-Type" :> "text/plain"),
     ("Authorization" :> "Basic abc"),
     ("Accept" :> "application/json") @@ ("Content-Type" :> "text/plain")}

CallerOptions ==
    {m @@ b @@ h :
        m \in Optional("method", {"POST", "PUT"}),
        b \in Optional("body", {[estado |-> "Resuelto"], JSON_stringify([estado |-> "Resuelto"])}),
        h \in Optional("headers", CallerHeaders)}

Endpoints == {"/Reports", "/Reports/42/estado"}

\* A caller awaits apiCall(endpoint, options).
ApiCallStart ==
    /\ call.pc = "idle"
    /\ \E endpoint \in Endpoints, options \in CallerOptions :
         /\ call' = [pc |-> "await", nextStatus |-> "",
                     request |-> <<ApiRequest(endpoint, getToken(localStorage), options)>>]
         /\ last' = [op |-> "apiCall", options |-> options]
    /\ UNCHANGED <<swVars, localStorage, currentUser, onLine, now, locationId, statusText, message,
                   drains, syncTag>>

\* What fetch gives apiCall, with the text of the response's body.
ApiOutcomes ==
    {[kind |-> "response", status |-> st, text |-> t] :
        st \in Statuses, t \in {"", "No autorizado"}}
    \cup {[kind |-> "error"]}

\* The fetch of that apiCall settles.
ApiCallSettle ==
    /\ call.pc = "await"
    /\ \E o \in ApiOutcomes :
         LET r == apiCallSettle(localStorage, o) IN
         /\ localStorage' = r.ls
         /\ currentUser' = IF r.loggedOut THEN Null ELSE currentUser
         /\ message' = IF r.fulfilled THEN message ELSE r.msg[1]
         /\ last' = [op |-> "apiSettle", outcome |-> o, navigate |-> r.navigate,
                     error |-> r.error]
    /\ call' = IdleCall
    /\ UNCHANGED <<swVars, onLine, now, locationId, statusText, drains, syncTag>>

InitApi ==
    /\ \E session \in BOOLEAN :
         /\ localStorage = [k \in {"authToken", "currentUser", "syncQueue"} |->
                              IF k = "authToken" /\ session THEN <<Token>>
                              ELSE IF k = "currentUser" /\ session THEN <<JSON_stringify(User)>>
                              ELSE <<>>]
         /\ currentUser = IF session THEN User ELSE Null
    /\ onLine = TRUE
    /\ now = 1
    /\ locationId = Null
    /\ statusText = "Enviado"
    /\ message = ""
    /\ drains = [d \in DrainIds |-> IdleDrain]
    /\ call = IdleCall
    /\ syncTag = FALSE
    /\ SwAtRest
    /\ last = [op |-> "init"]

NextApi ==
    \/ ApiCallStart
    \/ ApiCallSettle
    \/ LogoutClick

SpecApi == InitApi /\ [][NextApi]_vars

---------------------------------------------------------------------------
(* login *)

Tokens == {Token, "jwt2"}
Users == {User, "luis"}

\* What the server may put in the JSON body of its answer to POST /auth/login:
\* a token (possibly empty) or none, a user or none.
LoginBodies ==
    {t @@ u : t \in Optional("token", Tokens \cup {""}), u \in Optional("user", Users)}

LoginOutcomes ==
    {[kind |-> "response", status |-> 200, body |-> b] : b \in LoginBodies}
    \cup {[kind |-> "response", status |-> st] : st \in {401, 500}}
    \cup {[kind |-> "error"]}

\* response.token && response.user
HasTokenAndUser(response) ==
    /\ "token" \in DOMAIN response
    /\ Truthy(response.token)
    /\ "user" \in DOMAIN response
    /\ Truthy(response.user)

\* A login that keeps the token and forgets the user.
loginSettle_TokenOnly(ls, user, outcome) ==
    LET r == apiCallSettle(ls, outcome) IN
    IF r.fulfilled /\ HasTokenAndUser(outcome.body)
    THEN [ls |-> setItem(r.ls, "authToken", outcome.body.token), currentUser |-> user,
          returned |-> TRUE, threw |-> FALSE, msg |-> "Inicio de sesion exitoso"]
    ELSE [ls |-> r.ls, currentUser |-> user, returned |-> FALSE, threw |-> FALSE,
          msg |-> "Credenciales incorrectas"]

\* A login that ends the session whenever it fails.
loginSettle_LogoutOnFailure(ls, user, outcome) ==
    LET r == apiCallSettle(ls, outcome) IN
    IF r.fulfilled /\ HasTokenAndUser(outcome.body)
    THEN [ls |-> setItem(setItem(r.ls, "authToken", outcome.body.token),
                         "currentUser", JSON_stringify(outcome.body.user)),
          currentUser |-> outcome.body.user,
          returned |-> TRUE, threw |-> FALSE, msg |-> "Inicio de sesion exitoso"]
    ELSE [ls |-> logout(r.ls), currentUser |-> Null, returned |-> FALSE, threw |-> FALSE,
          msg |-> "Credenciales incorrectas"]

\* login after its apiCall settled (lines 58-81): the store, App.currentUser,
\* the value returned, whether login's own promise is rejected (the catch at
\* 77-81 takes every rejection of apiCall) and the message shown.
loginSettle(ls, user, outcome) ==
    LET r == apiCallSettle(ls, outcome) IN
    IF ~r.fulfilled
    THEN [ls |-> r.ls, currentUser |-> IF r.loggedOut THEN Null ELSE user,
          returned |-> FALSE, threw |-> FALSE, msg |-> "Credenciales incorrectas"]
    ELSE IF HasTokenAndUser(outcome.body)
    THEN [ls |-> setItem(setItem(r.ls, "authToken", outcome.body.token),
                         "currentUser", JSON_stringify(outcome.body.user)),
          currentUser |-> outcome.body.user,
          returned |-> TRUE, threw |-> FALSE, msg |-> "Inicio de sesion exitoso"]
    ELSE [ls |-> r.ls, currentUser |-> user, returned |-> FALSE, threw |-> FALSE,
          msg |-> "Error: Falta token o usuario en respuesta."]

\* The login form is submitted: login awaits apiCall("/auth/login", ...).
LoginSubmit ==
    /\ call.pc = "idle"
    /\ \E email \in {"ana@cc.mx"}, password \in {"secreto", "otro"} :
         call' = [pc |-> "login", nextStatus |-> "",
                  request |-> <<ApiRequest("/auth/login", getToken(localStorage),
                                           [method |-> "POST",
                                            body |-> [email |-> email, password |-> password]])>>]
    /\ last' = [op |-> "loginSubmit"]
    /\ UNCHANGED <<swVars, localStorage, currentUser, onLine, now, locationId, statusText, message,
                   drains, syncTag>>

\* The apiCall of login settles.
LoginSettle ==
    /\ call.pc = "login"
    /\ \E o \in LoginOutcomes :
         LET r == loginSettle(localStorage, currentUser, o) IN
         /\ localStorage' = r.ls
         /\ currentUser' = r.currentUser
         /\ message' = r.msg
         /\ last' = [op |-> "login", outcome |-> o, returned |-> r.returned,
                     threw |-> r.threw]
    /\ call' = IdleCall
    /\ UNCHANGED <<swVars, onLine, now, locationId, statusText, drains, syncTag>>

InitLogin ==
    /\ \E session \in BOOLEAN :
         /\ localStorage = [k \in {"authToken", "currentUser", "syncQueue"} |->
                              IF k = "authToken" /\ session THEN <<Token>>
                              ELSE IF k = "currentUser" /\ session THEN <<JSON_stringify(User)>>
                              ELSE <<>>]
         /\ currentUser = IF session THEN User ELSE Null
    /\ onLine = TRUE
    /\ now = 1
    /\ locationId = Null
    /\ statusText = "Enviado"
    /\ message = ""
    /\ drains = [d \in DrainIds |-> IdleDrain]
    /\ call = IdleCall
    /\ syncTag = FALSE
    /\ SwAtRest
    /\ last = [op |-> "init"]

NextLogin ==
    \/ LoginSubmit
    \/ LoginSettle
    \/ LogoutClick
    \/ PageLoad

SpecLogin == InitLogin /\ [][NextLogin]_vars

---------------------------------------------------------------------------
(* The service worker (the cc-cache-v5 revision) *)

CACHE_NAME == "cc-cache-v5"
API_CACHE == "cc-api-cache-v5"
API_BASE == "https://ciudad-conectada.onrender.com/api"

\* The origin the page and the worker are served from.
SelfOrigin == "https://app"
ApiOrigin == "https://ciudad-conectada.onrender.com"

LocalAssets ==
    {"/", "/Home.html", "/DetalleReporte.html", "/Perfil.html", "/Notificaciones.html",
     "/Login.html", "/RegistrarUsuario.html", "/app.css", "/app.js",
     "/icons/icono_144x144.png"}
FontAssets ==
    {"https://fonts.googleapis.com/css2?family=Public+Sans:wght@400;500;600;700;800;900&display=swap",
     "https://fonts.googleapis.com/css2?family=Material+Symbols+Outlined"}
STATIC_ASSETS == LocalAssets \cup FontAssets

\* The URL a manifest entry names, resolved against the worker's location.
Resolve(asset) == IF asset \in FontAssets THEN asset ELSE SelfOrigin \o asset

\* request.url
Href(request) == request.origin \o request.pathname \o request.search

\* The requests the worker is shown.
SwRequests ==
    {[method |-> "GET", origin |-> SelfOrigin, pathname |-> "/Home.html", search |-> ""],
     [method |-> "GET", origin |-> SelfOrigin, pathname |-> "/DetalleReporte.html",
      search |-> "?id=42"],
     [method |-> "GET", origin |-> SelfOrigin, pathname |-> "/manifest.json", search |-> ""],
     [method |-> "GET", origin |-> "https://fonts.googleapis.com", pathname |-> "/css2",
      search |-> "?family=Material+Symbols+Outlined"],
     [method |-> "GET", origin |-> ApiOrigin, pathname |-> "/api/Reports", search |-> ""],
     [method |-> "PUT", origin |-> ApiOrigin, pathname |-> "/api/Reports/42/estado",
      search |-> ""]}

\* url.href.startsWith(API_BASE), over the URLs above
StartsWithApiBase(href) == \E e \in Endpoints : href = API_BASE \o e

\* What the network gives the worker: a response, or no response.
ServerBodies == {[text |-> "r1"], [text |-> "r2"]}
NetworkOutcomes ==
    {[kind |-> "response", response |-> [status |-> st, body |-> b]] :
        st \in {200, 500}, b \in ServerBodies}
    \cup {[kind |-> "error"]}

(* CacheStorage and Cache *)

HasCache(cs, name) == \E k \in 1..Len(cs) : cs[k].name = name

\* caches.open(name): the cache is created when it does not exist
cachesOpen(cs, name) ==
    IF HasCache(cs, name) THEN cs ELSE Append(cs, [name |-> name, entries |-> <<>>])

\* cache.put / cache.addAll on the cache called name: entries replace those of
\* the same URL
cachePutAll(cs, name, entries) ==
    [k \in 1..Len(cs) |->
        IF cs[k].name = name THEN [cs[k] EXCEPT !.entries = entries @@ @] ELSE cs[k]]

\* caches.match(url): the entry of the first cache, in creation order, that has one
cachesMatch(cs, url) ==
    LET hits == {k \in 1..Len(cs) : url \in DOMAIN cs[k].entries} IN
    IF hits = {} THEN <<>>
    ELSE <<cs[CHOOSE k \in hits : \A j \in hits : k <= j].entries[url]>>

\* caches.match(request): a request that is not a GET matches nothing
cachesMatchRequest(cs, request) ==
    IF request.method = "GET" THEN cachesMatch(cs, Href(request)) ELSE <<>>

\* cache.put(request, response): rejected for a request that is not a GET
CachePutAccepts(request) == request.method = "GET"

(* install, lines 90-95 *)

\* The manifest entries whose fetch fails (no response, or a response that is
\* not ok) in one install attempt: none, any one of them, or all.
FailingSets == {{}} \cup {{a} : a \in STATIC_ASSETS} \cup {STATIC_ASSETS}

\* An addAll that stores the entries it could fetch.
InstallCaches_BestEffort(cs, failing, body) ==
    cachePutAll(cachesOpen(cs, CACHE_NAME), CACHE_NAME,
                [u \in {Resolve(a) : a \in STATIC_ASSETS \ failing} |->
                    [status |-> 200, body |-> body]])

\* caches.open(CACHE_NAME).then(cache => cache.addAll(STATIC_ASSETS)): every
\* entry is stored, or, when one fetch fails, none.
InstallCaches(cs, failing, body) ==
    IF failing = {}
    THEN cachePutAll(cachesOpen(cs, CACHE_NAME), CACHE_NAME,
                     [u \in {Resolve(a) : a \in STATIC_ASSETS} |-> [status |-> 200, body |-> body]])
    ELSE cachesOpen(cs, CACHE_NAME)

\* The 'install' event: the worker is installed when the promise given to
\* waitUntil is fulfilled and discarded when it is rejected.
Install ==
    /\ swState = "parsed"
    /\ \E failing \in FailingSets, body \in ServerBodies :
         /\ caches' = InstallCaches(caches, failing, body)
         /\ swState' = IF failing = {} THEN "installed" ELSE "redundant"
         /\ last' = [op |-> "install", ok |-> failing = {}, failing |-> failing,
                     body |-> body]
    /\ UNCHANGED <<pageVars, swFetch, swPut, inbox, claim, fetched>>

(* activate, lines 100-111 *)

\* An activation that deletes nothing.
ActivateCaches_KeepAll(cs) == cs

\* The caches that survive activation
ActivateCaches(cs) == SelectSeq(cs, LAMBDA c : c.name = CACHE_NAME \/ c.name = API_CACHE)

\* The 'activate' listener: it hands the deletions to waitUntil and calls
\* self.clients.claim() before it returns; nothing chains the claim to the
\* deletions.
Activate ==
    /\ swState = "installed"
    /\ swState' = "activating"
    /\ claim' = "pending"
    /\ last' = [op |-> "activateEvent"]
    /\ UNCHANGED <<pageVars, caches, swFetch, swPut, inbox, fetched>>

\* The promise given to waitUntil settles: the deletions are done and the
\* worker is activated.
ActivateDeleted ==
    /\ swState = "activating"
    /\ caches' = ActivateCaches(caches)
    /\ swState' = "activated"
    /\ last' = [op |-> "activate",
                deleted |-> {caches[k].name : k \in 1..Len(caches)}
                            \ {CACHE_NAME, API_CACHE}]
    /\ UNCHANGED <<pageVars, swFetch, swPut, inbox, claim, fetched>>

\* The promise of clients.claim() settles: the open pages are controlled.
ClaimSettle ==
    /\ claim = "pending"
    /\ claim' = "done"
    /\ last' = [op |-> "claim"]
    /\ UNCHANGED <<pageVars, swState, caches, swFetch, swPut, inbox, fetched>>

(* fetch, lines 116-136 *)

IsStaticAsset(request) == request.pathname \in STATIC_ASSETS
IsApiRequest(request) == StartsWithApiBase(Href(request))

\* The branch the listener takes for a request
Branch(request) ==
    IF IsStaticAsset(request) THEN "static"
    ELSE IF IsApiRequest(request) THEN "api" ELSE "other"

\* A listener that asks the network first for static assets too.
StaticFromCache_NetworkFirst(cs, request) == <<>>

\* Static branch: caches.match(url.pathname).then(res => res || fetch(request)).
\* The entry when there is one; <<>> when the network is asked.
StaticFromCache(cs, request) == cachesMatch(cs, SelfOrigin \o request.pathname)

\* The body the reportes-cache-v2 revision answers with (part_001, line 55).
OfflineBody_NoConnection == JSON_stringify([ok |-> FALSE, message |-> "No connection"])

\* The body apiNetworkThenCache answers with when there is neither network nor
\* cached response (lines 160-167).
OfflineBody ==
    JSON_stringify([ok |-> TRUE, offline |-> TRUE, message |-> "Datos cargados offline",
                    data |-> <<>>])

\* The catch branch of apiNetworkThenCache (lines 153-168)
ApiOffline(cs, request) ==
    LET cached == cachesMatchRequest(cs, request) IN
    IF cached # <<>> THEN [response |-> cached, from |-> "cache"]
    ELSE [response |-> <<[status |-> 200, body |-> OfflineBody]>>, from |-> "synth"]

\* What the listener answers the page with once its fetch(request) settled
\* with outcome o, for a request of the given branch.
SwAnswer(cs, branch, request, o) ==
    IF o.kind = "response"
    THEN [response |-> <<o.response>>, from |-> "network"]
    ELSE IF branch = "api" THEN ApiOffline(cs, request)
    ELSE IF branch = "other" /\ cachesMatchRequest(cs, request) # <<>>
         THEN [response |-> cachesMatchRequest(cs, request), from |-> "cache"]
         ELSE [response |-> <<>>, from |-> "error"]

\* A worker that stores every response the network gives, ok or not.
SwStores_AnyResponse(branch, o) == branch = "api" /\ o.kind = "response"

\* if (networkResponse.ok) cache.put(request, networkResponse.clone()), line 146
SwStores(branch, o) ==
    branch = "api" /\ o.kind = "response" /\ ResponseOk(o.response.status)

\* The 'fetch' event: a static asset found in a cache is answered at once; for
\* anything else the worker asks the network.
FetchEvent ==
    /\ swState = "activated"
    /\ swFetch.pc = "idle"
    /\ \E request \in SwRequests :
         LET cached == StaticFromCache(caches, request) IN
         IF Branch(request) = "static" /\ cached # <<>>
         THEN /\ swFetch' = swFetch
              /\ last' = [op |-> "swRespond", request |-> request, response |-> cached,
                          from |-> "cache", network |-> FALSE]
         ELSE /\ swFetch' = [pc |-> "network", branch |-> Branch(request),
                             request |-> <<request>>]
              /\ last' = [op |-> "swFetch", request |-> request]
    /\ UNCHANGED <<pageVars, swState, caches, swPut, inbox, claim, fetched>>

\* The worker's fetch(request) settles and the listener answers the page.
NetworkSettle ==
    /\ swFetch.pc = "network"
    /\ \E o \in NetworkOutcomes :
         LET request == swFetch.request[1]
             answer == SwAnswer(caches, swFetch.branch, request, o)
             stores == SwStores(swFetch.branch, o)
             put == [request |-> request, response |-> o.response]
         IN  /\ stores => Len(swPut) < MaxPendingPuts
             /\ caches' = IF stores THEN cachesOpen(caches, API_CACHE) ELSE caches
             /\ swPut' = IF stores THEN Append(swPut, put) ELSE swPut
             /\ fetched' = IF stores
                           THEN Append(SelectSeq(fetched, LAMBDA f : f.request # request), put)
                           ELSE fetched
             /\ last' = [op |-> "swRespond", request |-> request, response |-> answer.response,
                         from |-> answer.from, network |-> TRUE, outcome |-> o]
    /\ swFetch' = IdleSwFetch
    /\ UNCHANGED <<pageVars, swState, inbox, claim>>

\* One of the cache.put(request, networkResponse.clone()) calls, which nothing
\* awaits, settles: the calls settle in any order, and the listener answers
\* later requests meanwhile.
PutSettle ==
    /\ \E k \in 1..Len(swPut) :
         /\ caches' = IF CachePutAccepts(swPut[k].request)
                      THEN cachePutAll(caches, API_CACHE,
                                       (Href(swPut[k].request) :> swPut[k].response))
                      ELSE caches
         /\ swPut' = [j \in 1..(Len(swPut) - 1) |-> IF j < k THEN swPut[j] ELSE swPut[j + 1]]
         /\ last' = [op |-> "swPut", request |-> swPut[k].request,
                     response |-> swPut[k].response]
    /\ UNCHANGED <<pageVars, swState, swFetch, inbox, claim, fetched>>

\* A generation an earlier version of the worker left behind.
OldCaches ==
    <<[name |-> "cc-api-cache-v4",
       entries |-> (API_BASE \o "/Reports") :> [status |-> 200, body |-> [text |-> "r0"]]]>>

\* The static generation an earlier install of a worker with the same
\* CACHE_NAME filled.
EarlierStatic ==
    <<[name |-> CACHE_NAME,
       entries |-> [u \in {Resolve(a) : a \in STATIC_ASSETS} |->
                       [status |-> 200, body |-> [text |-> "r0"]]]]>>

InitSW ==
    /\ localStorage = [k \in {"authToken", "currentUser", "syncQueue"} |-> <<>>]
    /\ currentUser = Null
    /\ onLine = TRUE
    /\ now = 1
    /\ locationId = Null
    /\ statusText = "Enviado"
    /\ message = ""
    /\ drains = [d \in DrainIds |-> IdleDrain]
    /\ call = IdleCall
    /\ syncTag = FALSE
    /\ swState = "parsed"
    /\ caches \in {<<>>, OldCaches, EarlierStatic}
    /\ swFetch = IdleSwFetch
    /\ swPut = <<>>
    /\ inbox = <<>>
    /\ claim = "none"
    /\ fetched = <<>>
    /\ last = [op |-> "init"]

NextSW ==
    \/ Install
    \/ Activate
    \/ ActivateDeleted
    \/ ClaimSettle
    \/ FetchEvent
    \/ NetworkSettle
    \/ PutSettle

SpecSW == InitSW /\ [][NextSW]_vars

---------------------------------------------------------------------------
(* Background sync: the worker's 'sync' listener and the page's 'message'     *)
(* listener                                                                   *)

SYNC_TAG == "sync-report-actions"
SyncTags == {SYNC_TAG, "other-tag"}

\* self.clients.matchAll(): the window clients the worker controls, in the
\* browser's order. "page" is the page of this model, "other" another tab.
ClientLists == {<<>>, <<"page">>, <<"other", "page">>}

\* The worker's processSyncQueue (part_001, lines 181-187): the message goes to
\* clientsList[0]; with no client, client is undefined and postMessage throws.
swProcessSyncQueue(clientsList) ==
    IF Len(clientsList) = 0
    THEN [posted |-> <<>>, threw |-> TRUE]
    ELSE [posted |-> <<[to |-> clientsList[1], data |-> [type |-> "SYNC_NOW"]]>>,
          threw |-> FALSE]

\* The 'sync' listener (lines 174-178). The browser fires the tag the page
\* registered; a sync whose promise rejects stays registered and is retried.
\* For another tag the clients are not looked up.
SyncEvent ==
    /\ swState = "activated"
    /\ Len(inbox) < MaxInbox
    /\ \E tag \in SyncTags, clientsList \in ClientLists :
         /\ tag = SYNC_TAG => syncTag
         /\ tag # SYNC_TAG => clientsList = <<>>
         /\ LET r == IF tag = SYNC_TAG THEN swProcessSyncQueue(clientsList)
                     ELSE [posted |-> <<>>, threw |-> FALSE]
            IN  /\ inbox' = IF r.posted # <<>> /\ r.posted[1].to = "page"
                            THEN Append(inbox, r.posted[1].data) ELSE inbox
                /\ syncTag' = IF tag = SYNC_TAG /\ ~r.threw THEN FALSE ELSE syncTag
                /\ last' = [op |-> "sync", tag |-> tag, clients |-> clientsList,
                            posted |-> r.posted, threw |-> r.threw]
    /\ UNCHANGED <<localStorage, currentUser, onLine, now, locationId, statusText, message,
                   drains, call, swState, caches, swFetch, swPut, claim, fetched>>

\* event.data && event.data.type === "SYNC_NOW"
IsSyncNow(data) == "type" \in DOMAIN data /\ data.type = "SYNC_NOW"

\* The page's 'message' listener (app.js, lines 28-35)
MessageEvent ==
    /\ inbox # <<>>
    /\ inbox' = Tail(inbox)
    /\ IF IsSyncNow(Head(inbox))
       THEN /\ CallProcessSyncQueue(localStorage, message, "message", Idle("message"))
            /\ last' = DrainStartRecord(localStorage, "message") @@ [data |-> Head(inbox)]
       ELSE /\ last' = [op |-> "message", data |-> Head(inbox)]
            /\ UNCHANGED <<message, drains>>
    /\ UNCHANGED <<localStorage, currentUser, onLine, now, locationId, statusText, call, syncTag,
                   swState, caches, swFetch, swPut, claim, fetched>>

---------------------------------------------------------------------------
(* The page with its worker active: the drains as the code starts them, one   *)
(* per trigger, overlapping.                                                  *)

InitConcurrent ==
    /\ localStorage = [k \in {"authToken", "currentUser", "syncQueue"} |->
                         IF k = "authToken" THEN <<Token>>
                         ELSE IF k = "currentUser" THEN <<JSON_stringify(User)>>
                         ELSE <<>>]
    /\ currentUser = User
    /\ onLine \in BOOLEAN
    /\ now = 1
    /\ locationId \in ReportIds
    /\ statusText = "Enviado"
    /\ message = ""
    /\ drains = [d \in DrainIds |-> IdleDrain]
    /\ call = IdleCall
    /\ syncTag = FALSE
    /\ swState = "activated"
    /\ caches = ActivateCaches(InstallCaches(<<>>, {}, [text |-> "r1"]))
    /\ swFetch = IdleSwFetch
    /\ swPut = <<>>
    /\ inbox = <<>>
    /\ claim = "done"
    /\ fetched = <<>>
    /\ last = [op |-> "init"]

NextConcurrent ==
    \/ StatusChangeOfflineConcurrent
    \/ OnlineEventConcurrent
    \/ OfflineEvent
    \/ SyncEvent
    \/ MessageEvent
    \/ PageLoad
    \/ \E d \in DrainIds : DrainResponse(d)

SpecConcurrent == InitConcurrent /\ [][NextConcurrent]_vars

---------------------------------------------------------------------------
(* The report page under the control of the activated worker: the fetch of    *)
(* apiCall is a 'fetch' event of the worker, and what apiCall gets is what    *)
(* the worker's listener answers.                                             *)

\* The request of handleStatusChange as the worker's listener sees it.
ControlledRequest(reportId) ==
    [method |-> "PUT", origin |-> ApiOrigin, pathname |-> "/api" \o EstadoEndpoint(reportId),
     search |-> ""]

\* What the server or the network gives the worker for that request.
ControlledOutcomes ==
    NetworkOutcomes
    \cup {[kind |-> "response", response |-> [status |-> 401, body |-> [text |-> "r1"]]]}

\* The outcome of the page's fetch: the response respondWith was given, or a
\* network error when the listener's promise was rejected.
PageOutcome(answer) ==
    IF answer.response = <<>> THEN [kind |-> "error"]
    ELSE [kind |-> "response", status |-> answer.response[1].status]

\* The apiCall of handleStatusChange settles with the answer of the worker:
\* apiNetworkThenCache asks the network, stores an ok response, and on a
\* network failure answers from the caches or with its placeholder.
StatusChangeSettleControlled ==
    /\ call.pc = "await"
    /\ swState = "activated"
    /\ claim = "done"
    /\ \E o \in ControlledOutcomes :
         LET request == ControlledRequest(locationId)
             answer == SwAnswer(caches, Branch(request), request, o)
             stores == SwStores(Branch(request), o)
             put == [request |-> request, response |-> o.response]
             outcome == PageOutcome(answer)
             r == apiCallSettle(localStorage, outcome)
         IN  /\ Href(request) = call.request[1].url
             /\ stores => Len(swPut) < MaxPendingPuts
             /\ caches' = IF stores THEN cachesOpen(caches, API_CACHE) ELSE caches
             /\ swPut' = IF stores THEN Append(swPut, put) ELSE swPut
             /\ fetched' = IF stores
                           THEN Append(SelectSeq(fetched, LAMBDA f : f.request # request), put)
                           ELSE fetched
             /\ localStorage' = IF r.fulfilled THEN r.ls
                                ELSE statusChangeCatch(r.ls, now,
                                                       StatusAction(locationId, call.nextStatus))
             /\ currentUser' = IF r.loggedOut THEN Null ELSE currentUser
             /\ message' = IF r.fulfilled THEN "Estado actualizado" ELSE "Error al cambiar estado"
             /\ statusText' = IF r.fulfilled THEN call.nextStatus ELSE statusText
             /\ last' = [op |-> "statusSettle", outcome |-> outcome, network |-> o,
                         from |-> answer.from, action |-> StatusAction(locationId, call.nextStatus)]
    /\ call' = IdleCall
    /\ UNCHANGED <<onLine, now, locationId, drains, syncTag, swState, swFetch, inbox, claim>>

InitControlled ==
    /\ \E session \in BOOLEAN :
         /\ localStorage = [k \in {"authToken", "currentUser", "syncQueue"} |->
                              IF k = "authToken" /\ session THEN <<Token>>
                              ELSE IF k = "currentUser" /\ session THEN <<JSON_stringify(User)>>
                              ELSE <<>>]
         /\ currentUser = IF session THEN User ELSE Null
    /\ onLine \in BOOLEAN
    /\ now = 1
    /\ locationId \in ReportIds
    /\ statusText \in DomStatuses
    /\ message = ""
    /\ drains = [d \in DrainIds |-> IdleDrain]
    /\ call = IdleCall
    /\ syncTag = FALSE
    /\ swState = "activated"
    /\ caches = ActivateCaches(InstallCaches(<<>>, {}, [text |-> "r1"]))
    /\ swFetch = IdleSwFetch
    /\ swPut = <<>>
    /\ inbox = <<>>
    /\ claim = "done"
    /\ fetched = <<>>
    /\ last = [op |-> "init"]

NextControlled ==
    \/ StatusChangeOfflineConcurrent
    \/ StatusChangeOnline
    \/ StatusChangeSettleControlled
    \/ PutSettle
    \/ LogoutClick

SpecControlled == InitControlled /\ [][NextControlled]_vars

---------------------------------------------------------------------------
(* A signed-in session on the report page: status changes on both branches,   *)
(* the logout the user asks for and the one a 401 forces, and the drains.     *)

InitSession ==
    /\ localStorage = [k \in {"authToken", "currentUser", "syncQueue"} |->
                         IF k = "authToken" THEN <<Token>>
                         ELSE IF k = "currentUser" THEN <<JSON_stringify(User)>>
                         ELSE <<>>]
    /\ currentUser = User
    /\ onLine \in BOOLEAN
    /\ now = 1
    /\ locationId \in ReportIds
    /\ statusText = "Enviado"
    /\ message = ""
    /\ drains = [d \in DrainIds |-> IdleDrain]
    /\ call = IdleCall
    /\ syncTag = FALSE
    /\ SwAtRest
    /\ last = [op |-> "init"]

NextSession ==
    \/ StatusChangeOfflineConcurrent
    \/ StatusChangeOnline
    \/ StatusChangeSettle
    \/ LogoutClick
    \/ OnlineEvent
    \/ OfflineEvent
    \/ PageLoad
    \/ \E d \in DrainIds : DrainResponse(d)

SpecSession == InitSession /\ [][NextSession]_vars

---------------------------------------------------------------------------
(* Properties of the sync queue manager *)

syncQueue == readQueue(localStorage)

\* The actions of a finished run whose replay got an HTTP-ok response.
ReplayedOk(queue, failed) == {queue[k] : k \in {j \in 1..Len(queue) : ~failed[j]}}

\* The subsequence of queue at the indexes whose flag is set.
RECURSIVE Flagged(_, _)
Flagged(queue, flags) ==
    IF Len(queue) = 0 \/ Len(flags) = 0 THEN <<>>
    ELSE IF Head(flags) THEN <<Head(queue)>> \o Flagged(Tail(queue), Tail(flags))
         ELSE Flagged(Tail(queue), Tail(flags))

\* C1: an action leaves the persisted queue only when a replay of that action
\* got an HTTP-ok response. The final write of a drain is the only step that
\* removes actions, and no other drain is in progress with it: every action it
\* removes must be one this drain replayed with success.
C1_RemovedOnlyAfterOkReplay ==
    last.op = "drainWrite" =>
        \A x \in Range(last.before) \ Range(syncQueue) : x \in ReplayedOk(last.queue, last.failed)

\* C2: when every replay of a drain got an HTTP-ok response, the persisted
\* queue is the empty sequence when the drain finishes.
C2_AllOkEmptiesQueue ==
    (last.op = "drainWrite" /\ \A k \in 1..Len(last.failed) : ~last.failed[k]) =>
        /\ localStorage["syncQueue"] # <<>>
        /\ syncQueue = <<>>

C2_Witness ==
    /\ last.op = "drainWrite"
    /\ Len(last.queue) = 2
    /\ last.failed = <<FALSE, FALSE>>
    /\ last.before = last.queue
    /\ syncQueue = <<>>

\* C3: when a drain finishes, the persisted queue is the subsequence of the
\* snapshot it started from made of the actions whose replay failed (a not-ok
\* response or no response), in their order and unchanged.
C3_ResidualIsFailedSubsequence ==
    last.op = "drainWrite" =>
        /\ Len(last.failed) = Len(last.queue)
        /\ syncQueue = Flagged(last.queue, last.failed)

C3_Witness ==
    /\ last.op = "drainWrite"
    /\ Len(last.queue) = 2
    /\ last.queue[1] # last.queue[2]
    /\ last.failed = <<TRUE, TRUE>>
    /\ last.outcome = [kind |-> "response", status |-> 500]
    /\ last.before = last.queue
    /\ syncQueue = last.queue

\* C4: a drain calls fetch once per action of its snapshot, in the snapshot's
\* order, the next one only after the one before has settled, and none twice.
C4_OneRequestPerActionInOrder ==
    /\ \A d \in DrainIds :
         drains[d].pc = "await" =>
            /\ drains[d].i \in 1..Len(drains[d].queue)
            /\ drains[d].sent = SubSeq(drains[d].queue, 1, drains[d].i)
            /\ Len(drains[d].failed) = Len(drains[d].sent) - 1
            /\ drains[d].request =
                   <<ReplayRequest(drains[d].queue[drains[d].i],
                                   IF "Authorization" \in DOMAIN drains[d].request[1].headers
                                   THEN Token ELSE Null)>>
    /\ last.op = "drainWrite" =>
            /\ last.sent = last.queue
            /\ Len(last.failed) = Len(last.queue)

C4_Witness ==
    /\ last.op = "drainWrite"
    /\ Len(last.queue) = 2
    /\ last.queue[1] # last.queue[2]
    /\ last.failed[1]
    /\ last.sent = last.queue

\* C5: a 401 response to a call of the page, a replay of the drain included,
\* leaves no authToken and no currentUser in the store.
C5_401ClearsCredential ==
    (last.op \in {"drainResponse", "drainWrite", "statusSettle"} /\ Is401(last.outcome)) =>
        /\ localStorage["authToken"] = <<>>
        /\ localStorage["currentUser"] = <<>>

\* C7: a status change that could not reach the server is in the persisted
\* queue: when navigator.onLine was false at the click, and when it was true
\* and the fetch was rejected.
C7_UnreachedStatusChangeIsQueued ==
    /\ last.op = "statusOffline" =>
          \E k \in 1..Len(syncQueue) :
              /\ syncQueue[k].url = EstadoEndpoint(locationId)
              /\ syncQueue[k].method = "PUT"
              /\ syncQueue[k].body = [estado |-> statusText]
    /\ (last.op = "statusSettle" /\ last.outcome.kind = "error") =>
          \E k \in 1..Len(syncQueue) :
              /\ syncQueue[k].url = EstadoEndpoint(locationId)
              /\ syncQueue[k].method = "PUT"
              /\ syncQueue[k].body = [estado |-> NextStatus(statusText)]

---------------------------------------------------------------------------
(* Properties of apiCall *)

\* C6: the request apiCall builds carries Content-Type: application/json and,
\* with a stored token, Authorization: Bearer <token>; a header the caller
\* passes replaces the default of the same name, and a default the caller did
\* not name is still in the request.
C6_DefaultHeadersKept ==
    last.op = "apiCall" =>
        LET sentHeaders == call.request[1].config.headers
            own == IF "headers" \in DOMAIN last.options THEN last.options.headers
                   ELSE EmptyObject
            token == getToken(localStorage)
        IN  /\ \A k \in DOMAIN own : k \in DOMAIN sentHeaders /\ sentHeaders[k] = own[k]
            /\ "Content-Type" \in DOMAIN sentHeaders
            /\ "Content-Type" \notin DOMAIN own =>
                   sentHeaders["Content-Type"] = "application/json"
            /\ Truthy(token) =>
                   /\ "Authorization" \in DOMAIN sentHeaders
                   /\ "Authorization" \notin DOMAIN own =>
                          sentHeaders["Authorization"] = "Bearer " \o token

---------------------------------------------------------------------------
(* Properties of the service worker *)

\* C8: a request whose path is in STATIC_ASSETS and for which a cache holds an
\* entry is answered with that entry, and no network fetch is issued for it.
C8_StaticCacheFirst ==
    (/\ last.op = "swRespond"
     /\ last.request.pathname \in STATIC_ASSETS
     /\ cachesMatch(caches, SelfOrigin \o last.request.pathname) # <<>>) =>
        /\ ~last.network
        /\ last.from = "cache"
        /\ last.response = cachesMatch(caches, SelfOrigin \o last.request.pathname)

C8_Witness ==
    /\ last.op = "swRespond"
    /\ last.request.pathname = "/DetalleReporte.html"
    /\ last.request.search = "?id=42"
    /\ ~last.network
    /\ last.response # <<>>
    /\ swFetch.pc = "idle"

\* C9: for an API request, GET or PUT, that the network answered with an ok
\* response, the entry of the API cache for that request is that response once
\* the put has settled.
C9_OkResponseIsCached ==
    last.op = "swPut" =>
        /\ HasCache(caches, API_CACHE)
        /\ \E k \in 1..Len(caches) :
              /\ caches[k].name = API_CACHE
              /\ Href(last.request) \in DOMAIN caches[k].entries
              /\ caches[k].entries[Href(last.request)] = last.response

\* C10 as stated: with no network and no cached response, the body of the
\* answer to an API request is {ok: true, offline: true, data: []} and nothing else.
C10_OfflineBodyThreeFields ==
    (last.op = "swRespond" /\ IsApiRequest(last.request) /\ last.from = "synth") =>
        last.response[1].body = JSON_stringify([ok |-> TRUE, offline |-> TRUE, data |-> <<>>])

\* C10, amended: with no network and no cached response for the request, the
\* answer to an API request is a 200 whose body is {ok: true, offline: true,
\* message: "Datos cargados offline", data: []}.
C10_OfflineBody ==
    (/\ last.op = "swRespond"
     /\ IsApiRequest(last.request)
     /\ last.network
     /\ last.from # "network"
     /\ cachesMatchRequest(caches, last.request) = <<>>) =>
        /\ last.response # <<>>
        /\ last.response[1].status = 200
        /\ last.response[1].body =
               JSON_stringify([ok |-> TRUE, offline |-> TRUE,
                               message |-> "Datos cargados offline", data |-> <<>>])

C10_Witness ==
    /\ last.op = "swRespond"
    /\ last.request.method = "GET"
    /\ IsApiRequest(last.request)
    /\ last.from = "synth"
    /\ cachesMatchRequest(caches, last.request) = <<>>

---------------------------------------------------------------------------
(* Properties of login *)

\* C11: when login receives a response with both a token and a user, then
\* afterwards localStorage authToken is that token, localStorage currentUser is
\* that user (as JSON text), App.currentUser is that user, and login returns true.
C11_LoginStoresCredential ==
    (/\ last.op = "login"
     /\ OutcomeOk(last.outcome)
     /\ "token" \in DOMAIN last.outcome.body
     /\ last.outcome.body.token # ""
     /\ "user" \in DOMAIN last.outcome.body) =>
        /\ last.returned
        /\ localStorage["authToken"] = <<last.outcome.body.token>>
        /\ localStorage["currentUser"] # <<>>
        /\ JSON_parse(localStorage["currentUser"][1]) = last.outcome.body.user
        /\ currentUser = last.outcome.body.user

C11_Witness ==
    /\ last.op = "login"
    /\ OutcomeOk(last.outcome)
    /\ "token" \in DOMAIN last.outcome.body
    /\ last.outcome.body.token = "jwt2"
    /\ "user" \in DOMAIN last.outcome.body
    /\ last.outcome.body.user = "luis"
    /\ currentUser = "luis"

---------------------------------------------------------------------------
(* Properties of the cache generations *)

CacheNames == {caches[k].name : k \in 1..Len(caches)}

\* C12 as stated: in every reachable state of the cache storage, before, during
\* and after install and activate, no generation exists other than CACHE_NAME
\* and API_CACHE.
C12_OnlyCurrentGenerationsEver == CacheNames \subseteq {CACHE_NAME, API_CACHE}

\* C12, amended: from the moment activation has completed, no generation exists
\* other than CACHE_NAME and API_CACHE; a generation an earlier version left
\* exists until then, next to the new static generation once install has run.
C12_OnlyCurrentGenerationsOnceActivated ==
    swState = "activated" => CacheNames \subseteq {CACHE_NAME, API_CACHE}

C12_Witness ==
    /\ swState = "activated"
    /\ last.op = "activate"
    /\ last.deleted # {}
    /\ CACHE_NAME \in CacheNames

---------------------------------------------------------------------------
(* Properties of the queued actions *)

\* C13: every action in the persisted syncQueue has an id, a timestamp-derived
\* integer, different from the id of every other action in the queue, also for
\* two enqueues within the same millisecond.
C13_IdsAreDistinct ==
    \A i, j \in 1..Len(syncQueue) :
        /\ "id" \in DOMAIN syncQueue[i]
        /\ syncQueue[i].id \in 1..now
        /\ i # j => syncQueue[i].id # syncQueue[j].id


\* The actions handleStatusChange can have passed to enqueueSyncAction here.
PassedActions == {StatusAction(locationId, st) : st \in DomStatuses}

SameRequestFields(stored, action) ==
    /\ stored.url = action.url
    /\ stored.method = action.method
    /\ stored.body = action.body

\* C15: the request a drain sends for a queued action has the relative URL
\* (appended to apiBaseUrl), the method and the body of the action that was
\* passed to enqueueSyncAction: the record stored for it carries them, every
\* record read back from the queue is one that was stored, and the request is
\* built from them.
C15_ReplaySendsTheEnqueuedAction ==
    /\ last.op = "statusOffline" =>
          /\ Len(syncQueue) > 0
          /\ SameRequestFields(syncQueue[Len(syncQueue)], last.action)
    /\ \A d \in DrainIds :
          /\ \A k \in 1..Len(drains[d].queue) :
                \E a \in PassedActions : SameRequestFields(drains[d].queue[k], a)
          /\ drains[d].pc = "await" =>
                \E a \in PassedActions :
                    /\ SameRequestFields(drains[d].queue[drains[d].i], a)
                    /\ drains[d].request[1].url = apiBaseUrl \o a.url
                    /\ drains[d].request[1].method = a.method
                    /\ drains[d].request[1].body = <<JSON_stringify(a.body)>>

C15_Witness ==
    \E d \in DrainIds :
        /\ drains[d].pc = "await"
        /\ drains[d].i = 2
        /\ drains[d].request[1].method = "PUT"
        /\ drains[d].request[1].body = <<JSON_stringify([estado |-> "Resuelto"])>>
        /\ drains[d].queue[1].body = [estado |-> "En Progreso"]

---------------------------------------------------------------------------
(* Properties of the drain triggers *)

\* processSyncQueue was called by the given trigger in this step: with a queue
\* that is not empty the drain of that trigger now awaits the fetch of the first
\* action of the queue it read.
DrainStartedBy(trigger) ==
    /\ last'.op \in {"drainStart", "drainEmpty"}
    /\ last'.trigger = trigger
    /\ Len(readQueue(localStorage)) > 0 =>
          /\ drains'[trigger].pc = "await"
          /\ drains'[trigger].queue = readQueue(localStorage)
          /\ drains'[trigger].sent = <<readQueue(localStorage)[1]>>

\* C16: the connectivity observer starts a drain once at startup if the browser
\* is online and on every transition to online; on a transition to offline it
\* starts no drain and leaves the queue and the messages alone.
C16_ObserverStartsDrains ==
    [][/\ (~onLine /\ onLine') => DrainStartedBy("online")
       /\ (onLine /\ ~onLine') =>
             /\ drains' = drains
             /\ localStorage' = localStorage
             /\ message' = message
       /\ (last.op # "pageLoad" /\ last'.op = "pageLoad") =>
             /\ drains'["message"] = IdleDrain
             /\ onLine /\ Len(readQueue(localStorage)) > 0 =>
                   /\ drains'["online"].pc = "await"
                   /\ drains'["online"].queue = readQueue(localStorage)
                   /\ drains'["online"].sent = <<readQueue(localStorage)[1]>>
             /\ ~onLine => drains'["online"] = IdleDrain]_vars

C16_Witness ==
    /\ last.op = "drainStart"
    /\ last.trigger = "online"
    /\ "data" \notin DOMAIN last
    /\ onLine
    /\ drains["online"].pc = "await"
    /\ drains["message"].pc = "await"

\* C17: for a sync event tagged 'sync-report-actions' the worker posts exactly
\* one {type: "SYNC_NOW"} message, to one connected page; for any other tag it
\* posts nothing; and a page that receives SYNC_NOW starts a drain.
C17_SyncPostsOneMessage ==
    /\ (last.op = "sync" /\ last.tag = SYNC_TAG) =>
          /\ Len(last.posted) = 1
          /\ last.posted[1].data = [type |-> "SYNC_NOW"]
          /\ last.posted[1].to \in Range(last.clients)
          /\ ~last.threw
    /\ (last.op = "sync" /\ last.tag # SYNC_TAG) => last.posted = <<>>
    /\ ("data" \in DOMAIN last /\ IsSyncNow(last.data)) =>
          /\ last.op \in {"drainStart", "drainEmpty"}
          /\ last.op = "drainStart" =>
                /\ drains["message"].pc = "await"
                /\ drains["message"].queue = syncQueue

\* C18: drains started by independent triggers overlap, each sends its own
\* request for the actions of the snapshot it read, and each writes its own
\* residual: after the final write of a drain the persisted queue is the list of
\* the actions that failed in that drain, whatever the other drain did or wrote.
C18_LastWriterWins ==
    [][\A d \in DrainIds :
          (drains[d].pc = "await" /\ drains'[d].pc = "idle" /\ last'.op = "drainWrite") =>
              /\ readQueue(localStorage') = drains'[d].failedActions
              /\ drains'[d].failedActions = Flagged(drains'[d].queue, drains'[d].failed)
              /\ drains'[d].sent = drains'[d].queue]_vars

\* Both drains read the same snapshot and sent a request for its action; the one
\* replayed it with success, the other failed and wrote last: the action is
\* back in the queue.
C18_Witness ==
    /\ last.op = "drainWrite"
    /\ drains["online"].pc = "idle"
    /\ drains["message"].pc = "idle"
    /\ Len(drains["online"].queue) > 0
    /\ drains["online"].queue = drains["message"].queue
    /\ drains["online"].sent = drains["message"].sent
    /\ \E d \in DrainIds : \A k \in 1..Len(drains[d].failed) : ~drains[d].failed[k]
    /\ syncQueue = drains["online"].queue

\* C19: while a processSyncQueue run is in progress and has not done its final
\* write, the persisted syncQueue contains every action that was in it when the
\* run started (so a page killed then starts its next drain from all of them).
C19_QueueKeptUntilFinalWrite ==
    \A d \in DrainIds :
        drains[d].pc = "await" =>
            \A k \in 1..Len(drains[d].queue) : drains[d].queue[k] \in Range(syncQueue)

---------------------------------------------------------------------------
(* Properties of the online status change *)

\* C20: a response with a status that is not a success, to a status change made
\* while online, never causes an enqueue: the persisted syncQueue is the same
\* before and after handleStatusChange.
C20_ServerFailureIsNotQueued ==
    [][/\ last'.op = "statusOnline" => localStorage' = localStorage
       /\ (/\ call.pc = "await"
           /\ last'.op = "statusSettle"
           /\ last'.outcome.kind = "response"
           /\ ~ResponseOk(last'.outcome.status)) =>
              localStorage'["syncQueue"] = localStorage["syncQueue"]]_vars

C20_Witness ==
    /\ last.op = "statusSettle"
    /\ last.outcome.kind = "response"
    /\ last.outcome.status = 500
    /\ call.pc = "idle"
    /\ message = "Error al cambiar estado"

---------------------------------------------------------------------------
(* Properties of apiCall *)

\* C21: when apiCall receives a 401, authToken and currentUser are removed and
\* the navigation to the login page is asked for, and the call fails with an
\* error that carries the status and the text of the response; for any other
\* status that is not a success the credential is left as it was and the call
\* fails the same way.
C21_UnauthorizedEndsTheSession ==
    [][(/\ call.pc = "await"
        /\ last'.op = "apiSettle"
        /\ last'.outcome.kind = "response"
        /\ ~ResponseOk(last'.outcome.status)) =>
           /\ last'.error # <<>>
           /\ last'.error[1].status = <<last'.outcome.status>>
           /\ last'.error[1].text = last'.outcome.text
           /\ IF last'.outcome.status = 401
              THEN /\ localStorage'["authToken"] = <<>>
                   /\ localStorage'["currentUser"] = <<>>
                   /\ currentUser' = Null
                   /\ last'.navigate = <<"Login.html">>
              ELSE /\ localStorage' = localStorage
                   /\ currentUser' = currentUser
                   /\ last'.navigate = <<>>]_vars

C21_Witness ==
    /\ last.op = "apiSettle"
    /\ last.outcome.kind = "response"
    /\ last.outcome.status = 401
    /\ last.outcome.text = "No autorizado"
    /\ last.navigate = <<"Login.html">>
    /\ localStorage["authToken"] = <<>>
    /\ currentUser = Null

---------------------------------------------------------------------------
(* Properties of enqueueSyncAction *)

\* C22: enqueueSyncAction leaves the persisted queue equal to the previous
\* queue with the new action appended last, the write being complete when it
\* returns; whether the background-sync registration is made, fails or is
\* absent changes neither the queue nor the outcome of the call.
C22_EnqueueAppendsLast ==
    [][last'.op = "statusOffline" =>
          LET before == readQueue(localStorage)
              after  == readQueue(localStorage')
          IN  /\ localStorage'["syncQueue"] # <<>>
              /\ Len(after) = Len(before) + 1
              /\ SubSeq(after, 1, Len(before)) = before
              /\ after[Len(after)].id = now'
              /\ SameRequestFields(after[Len(after)], last'.action)
              /\ localStorage'["authToken"] = localStorage["authToken"]
              /\ localStorage'["currentUser"] = localStorage["currentUser"]]_vars

C22_Witness ==
    /\ last.op = "statusOffline"
    /\ ~syncTag
    /\ Len(syncQueue) = 2
    /\ syncQueue[2].id = now
    /\ SameRequestFields(syncQueue[2], last.action)

---------------------------------------------------------------------------
(* Properties of processSyncQueue on an empty queue *)

\* C23: processSyncQueue called on an empty queue sends no request, writes
\* nothing to the store and shows no notification.
C23_EmptyQueueIsANoOp ==
    [][(/\ last'.op \in {"drainEmpty", "drainStart"}
        /\ Len(readQueue(localStorage)) = 0) =>
           /\ drains' = drains
           /\ localStorage' = localStorage
           /\ message' = message]_vars

C23_Witness ==
    /\ last.op = "drainEmpty"
    /\ localStorage["syncQueue"] = <<JSON_stringify(<<>>)>>
    /\ message = "Sincronizacion completada."
    /\ \A d \in DrainIds : drains[d].request = <<>>

---------------------------------------------------------------------------
(* Properties of replays answered with a client error *)

Is4xx(outcome) ==
    outcome.kind = "response" /\ outcome.status >= 400 /\ outcome.status < 500

\* The replays this drain made of action x were all answered with a 4xx status,
\* as far as the finished drain tells: x was not in its snapshot (no replay at
\* all), or x was the last action of the snapshot only and the answer was 4xx.
OnlyAnswered4xx(x) ==
    \/ x \notin Range(last.queue)
    \/ /\ Is4xx(last.outcome)
       /\ \A k \in 1..Len(last.queue) : last.queue[k] = x => k = Len(last.queue)

\* C24: an action whose endpoint answers every replay with a 4xx status stays
\* in the persisted queue after every drain: the final write of a drain never
\* drops it, so each later drain sends it again.
C24_RejectedActionNeverDropped ==
    last.op = "drainWrite" =>
        \A x \in Range(last.before) : OnlyAnswered4xx(x) => x \in Range(syncQueue)

---------------------------------------------------------------------------
(* Properties of the credential of a replay *)

\* Drain d built a request in this step.
BuiltRequest(d) == drains'[d].pc = "await" /\ drains'[d] # drains[d]

\* C25: each replay request carries Authorization: Bearer <token> exactly when
\* an authToken is stored at the time the request is built; the token is read
\* again for each action, so the replays made after a logout that happened
\* during the drain carry no Authorization.
C25_ReplayCarriesTheStoredToken ==
    [][\A d \in DrainIds : BuiltRequest(d) =>
          LET headers == drains'[d].request[1].headers IN
          IF localStorage["authToken"] # <<>>
          THEN /\ "Authorization" \in DOMAIN headers
               /\ headers["Authorization"] = "Bearer " \o localStorage["authToken"][1]
          ELSE "Authorization" \notin DOMAIN headers]_vars

\* A logout during a drain: the request in flight was built with the token,
\* the token is gone, and the drain has another action to replay.
C25_Witness ==
    /\ last.op = "logout"
    /\ localStorage["authToken"] = <<>>
    /\ \E d \in DrainIds :
         /\ drains[d].pc = "await"
         /\ drains[d].i < Len(drains[d].queue)
         /\ "Authorization" \in DOMAIN drains[d].request[1].headers

---------------------------------------------------------------------------
(* Properties of activation *)

\* C26: on activation the worker deletes every cache whose name is neither
\* CACHE_NAME nor API_CACHE and leaves those two as they were, and control of
\* the open pages is claimed only after that deletion has completed.
C26_ClaimAfterOldCachesDeleted ==
    [][/\ last'.op = "activate" =>
            /\ CacheNames' \subseteq {CACHE_NAME, API_CACHE}
            /\ \A k \in 1..Len(caches) :
                  caches[k].name \in {CACHE_NAME, API_CACHE} =>
                      \E j \in 1..Len(caches') : caches'[j] = caches[k]
       /\ claim' = "done" => swState' = "activated"]_vars

---------------------------------------------------------------------------
(* Properties of the API fallback *)

\* The response of the most recent ok fetch of this request: <<>> when none.
MostRecentFetched(request) ==
    LET hits == SelectSeq(fetched, LAMBDA f : f.request = request) IN
    IF hits = <<>> THEN <<>> ELSE <<hits[Len(hits)].response>>

\* The listener just answered an API request whose network fetch failed.
ApiFetchFailed ==
    /\ last.op = "swRespond"
    /\ IsApiRequest(last.request)
    /\ last.network
    /\ last.from # "network"

\* C27: for an API request whose network fetch fails, when a cached response
\* exists for that request the worker answers with that cached response, which
\* is the one the most recent successful fetch of the same request got, and
\* not with the synthesized placeholder.
C27_FallbackIsMostRecentResponse ==
    (ApiFetchFailed /\ cachesMatchRequest(caches, last.request) # <<>>) =>
        /\ last.from = "cache"
        /\ last.response = cachesMatchRequest(caches, last.request)
        /\ last.response = MostRecentFetched(last.request)

---------------------------------------------------------------------------
(* Properties of install *)

\* The entries of the static generation: the empty function when the cache
\* does not exist.
StaticEntries(cs) ==
    IF HasCache(cs, CACHE_NAME)
    THEN cs[CHOOSE k \in 1..Len(cs) : cs[k].name = CACHE_NAME].entries
    ELSE <<>>

\* C28: the install step is all-or-nothing: when the fetch of any one URL of
\* STATIC_ASSETS fails the install fails, the static generation holds no entry
\* of that attempt (what it held before is what it holds), and a worker whose
\* install failed never goes on to activation.
C28_InstallAllOrNothing ==
    [][/\ (last'.op = "install" /\ last'.failing # {}) =>
            /\ swState' = "redundant"
            /\ StaticEntries(caches') = StaticEntries(caches)
       /\ swState = "redundant" => swState' = "redundant"]_vars

C28_Witness ==
    /\ last.op = "install"
    /\ last.failing = {"/app.js"}
    /\ swState = "redundant"
    /\ HasCache(caches, CACHE_NAME)
    /\ StaticEntries(caches) = <<>>

---------------------------------------------------------------------------
(* Properties of a status change made through the worker *)

\* The server acknowledged the PUT of the status change that just settled.
ServerAcknowledged ==
    last.network.kind = "response" /\ ResponseOk(last.network.response.status)

\* C29: with the worker controlling the page, the page reports a status change
\* as updated ('Estado actualizado') only if the server acknowledged the PUT;
\* when the PUT cannot reach the server the change is in the persisted
\* syncQueue or is reported as an error.
C29_UpdatedOnlyIfAcknowledged ==
    last.op = "statusSettle" =>
        /\ message = "Estado actualizado" => ServerAcknowledged
        /\ last.network.kind = "error" =>
              \/ message = "Error al cambiar estado"
              \/ \E k \in 1..Len(syncQueue) : SameRequestFields(syncQueue[k], last.action)

---------------------------------------------------------------------------
(* Properties of logout *)

\* This step is a logout: the user asked for it, or a 401 answered the apiCall
\* of a status change.
LogoutStep ==
    \/ last'.op = "logout"
    \/ last'.op = "statusSettle" /\ Is401(last'.outcome)

\* C30: logout removes authToken and currentUser and nothing else: the
\* persisted syncQueue is the same before and after a logout, the user's or
\* the one a 401 forces, so the next drain starts from the actions that were
\* queued before the logout and replays them.
C30_LogoutKeepsTheQueue ==
    [][/\ LogoutStep =>
            /\ localStorage'["syncQueue"] = localStorage["syncQueue"]
            /\ localStorage'["authToken"] = <<>>
            /\ localStorage'["currentUser"] = <<>>
       /\ \A d \in DrainIds :
             (BuiltRequest(d) /\ drains'[d].i = 1) =>
                 /\ drains'[d].queue = readQueue(localStorage)
                 /\ drains'[d].request[1].url = apiBaseUrl \o readQueue(localStorage)[1].url]_vars

\* The session started signed in, so the token is absent because of a logout;
\* the page loaded after it has started a drain over the action queued before.
C30_Witness ==
    /\ last.op = "pageLoad"
    /\ localStorage["authToken"] = <<>>
    /\ currentUser = Null
    /\ drains["online"].pc = "await"
    /\ drains["online"].i = 1
    /\ drains["online"].queue = syncQueue
    /\ "Authorization" \notin DOMAIN drains["online"].request[1].headers

---------------------------------------------------------------------------
(* Properties of the status progression *)

\* The status a click asks for in this step, on either branch.
RequestedStatus ==
    IF last'.op = "statusOffline" THEN last'.action.body.estado ELSE call'.nextStatus

\* C31: handleStatusChange asks for En Progreso when the page shows Enviado
\* and for Resuelto when it shows anything else, so Resuelto is absorbing; a
\* change made offline is enqueued last with the status asked for, which is
\* the status the page then shows, so the actions of successive offline
\* changes carry the successive statuses in click order.
C31_StatusProgression ==
    [][/\ last'.op \in {"statusOffline", "statusOnline"} =>
            RequestedStatus = IF statusText = "Enviado" THEN "En Progreso" ELSE "Resuelto"
       /\ last'.op = "statusOffline" =>
            LET after == readQueue(localStorage') IN
            /\ after[Len(after)].body.estado = RequestedStatus
            /\ after[Len(after)].url = EstadoEndpoint(locationId)
            /\ statusText' = RequestedStatus
            /\ SubSeq(after, 1, Len(after) - 1) = readQueue(localStorage)]_vars

C31_Witness ==
    /\ last.op = "statusOffline"
    /\ Len(syncQueue) = 2
    /\ syncQueue[1].body.estado = "En Progreso"
    /\ syncQueue[2].body.estado = "Resuelto"
    /\ statusText = "Resuelto"

---------------------------------------------------------------------------
(* Properties of an API response that is not a success *)

\* In this step the network answered the worker's fetch of an API request with
\* a status that is not a success.
ApiAnsweredNotOk ==
    /\ last'.op = "swRespond"
    /\ IsApiRequest(last'.request)
    /\ last'.network
    /\ last'.outcome.kind = "response"
    /\ ~ResponseOk(last'.outcome.response.status)

\* C32: when the network answers an API request with a status that is not a
\* success, apiNetworkThenCache returns that response and leaves the API cache
\* as it was, no put being made: the response cached before for the request is
\* still what caches.match finds, and it is what a network failure is answered
\* with.
C32_NotOkResponseLeavesCache ==
    [][/\ ApiAnsweredNotOk =>
            /\ last'.request = swFetch.request[1]
            /\ last'.from = "network"
            /\ last'.response = <<last'.outcome.response>>
            /\ caches' = caches
            /\ swPut' = swPut
            /\ cachesMatchRequest(caches', last'.request)
                   = cachesMatchRequest(caches, last'.request)
       /\ (/\ last'.op = "swRespond"
           /\ IsApiRequest(last'.request)
           /\ last'.network
           /\ last'.from # "network"
           /\ cachesMatchRequest(caches, last'.request) # <<>>) =>
              last'.response = cachesMatchRequest(caches, last'.request)]_vars

C32_Witness ==
    /\ last.op = "swRespond"
    /\ IsApiRequest(last.request)
    /\ last.from = "network"
    /\ last.response[1].status = 500
    /\ cachesMatchRequest(caches, last.request) # <<>>
    /\ cachesMatchRequest(caches, last.request)[1].status = 200
    /\ swPut = <<>>

---------------------------------------------------------------------------
(* Properties of a sync with no page *)

\* C33: when a 'sync-report-actions' event arrives and no page is connected to
\* the worker, the sync handler posts no message and completes without
\* raising an error.
C33_SyncWithoutPageCompletes ==
    (last.op = "sync" /\ last.tag = SYNC_TAG /\ last.clients = <<>>) =>
        /\ last.posted = <<>>
        /\ ~last.threw

---------------------------------------------------------------------------
(* Properties of a login that fails *)

\* The login that settled in this step failed: its apiCall was rejected (no
\* response, or a status that is not a success), or the body it got lacks a
\* token or a user.
LoginFailed ==
    /\ last'.op = "login"
    /\ \/ ~OutcomeOk(last'.outcome)
       \/ "token" \notin DOMAIN last'.outcome.body
       \/ last'.outcome.body.token = ""
       \/ "user" \notin DOMAIN last'.outcome.body

\* C34: when login fails, it returns false and no error reaches its caller
\* (the rejection of apiCall is caught), and, unless the failure
\* is a 401, the stored authToken and currentUser and App.currentUser are what
\* they were before the call.
C34_FailedLoginKeepsSession ==
    [][LoginFailed =>
          /\ call.pc = "login"
          /\ call'.pc = "idle"
          /\ ~last'.returned
          /\ ~last'.threw
          /\ ~Is401(last'.outcome) =>
                /\ localStorage' = localStorage
                /\ currentUser' = currentUser]_vars

C34_Witness ==
    /\ last.op = "login"
    /\ last.outcome.kind = "response"
    /\ last.outcome.status = 500
    /\ ~last.returned
    /\ localStorage["authToken"] = <<Token>>
    /\ currentUser = User
    /\ message = "Credenciales incorrectas"

====
